---- MODULE Spec2Model ----
(***************************************************************************)
(* cc-cli ConfigManager (src/unnamed/part_000): the credential store, the  *)
(* two live documents of the target application, and the operations that   *)
(* read, normalise, validate and switch them.                              *)
(*                                                                         *)
(* JSON / JavaScript values are tagged records.  An object is the sequence *)
(* of its <<key, value>> properties in insertion order (the order          *)
(* JSON.stringify, Object.keys and for-in observe).  A string is the       *)
(* sequence of its symbols: " " is the whitespace symbol, every other      *)
(* symbol is an opaque non-blank piece of text.                            *)
(***************************************************************************)
EXTENDS Integers, Sequences, FiniteSets, TLC

VARIABLES
    storeFile,      \* ~/.cc-cli/api_configs.json : the Credential Store
    settingsFile,   \* ~/.claude/settings.json    : the Live Settings Document
    configJsonFile, \* ~/.claude/config.json      : the Live Config Document
    clock,          \* what new Date() reads
    op,             \* the operation that ran last
    args,           \* its arguments
    ret,            \* what it returned, or the error it threw
    pre,            \* the three files as they were when it started
    calls,          \* how many operations have run
    written,        \* the files it wrote (fs.writeFile), in order
    hook            \* the YOLO hook process: its stdin, timer and output

vars == <<storeFile, settingsFile, configJsonFile, clock, op, args, ret, pre, calls,
          written, hook>>

----------------------------------------------------------------------------
(* JavaScript values *)

Undefined == [t |-> "undefined"]
Null      == [t |-> "null"]
Str(s)    == [t |-> "string", s |-> s]
Num(n)    == [t |-> "number", n |-> n]
Bool(b)   == [t |-> "boolean", b |-> b]
Arr(a)    == [t |-> "array", a |-> a]
Obj(o)    == [t |-> "object", o |-> o]

EmptyObj == Obj(<<>>)

\* a file that does not exist, and a file whose text JSON.parse rejects
Missing   == [t |-> "missing"]
Malformed == [t |-> "malformed"]

\* a thrown Error
Error(m)   == [t |-> "error", m |-> m]
IsError(v) == v.t = "error"

IsObj(v) == v.t = "object"
IsArr(v) == v.t = "array"
IsStr(v) == v.t = "string"

\* typeof v
TypeOf(v) ==
    CASE v.t = "undefined" -> "undefined"
      [] v.t = "string"    -> "string"
      [] v.t = "number"    -> "number"
      [] v.t = "boolean"   -> "boolean"
      [] OTHER             -> "object"

\* ToBoolean(v): what `if (v)`, `!v`, `a && b`, `a || b` test
Truthy(v) ==
    CASE v.t = "undefined" -> FALSE
      [] v.t = "null"      -> FALSE
      [] v.t = "string"    -> v.s # <<>>
      [] v.t = "number"    -> v.n # 0
      [] v.t = "boolean"   -> v.b
      [] OTHER             -> TRUE

\* a property key read as a string value
KeyStr(k) == Str(<<k>>)

\* the own enumerable property keys of v, in order: Object.keys(v), for-in
Keys(v) ==
    CASE v.t = "object" -> [i \in 1..Len(v.o) |-> v.o[i][1]]
      [] v.t = "array"  -> [i \in 1..Len(v.a) |-> ToString(i - 1)]
      [] v.t = "string" -> [i \in 1..Len(v.s) |-> ToString(i - 1)]
      [] OTHER          -> <<>>

KeySet(v) == {Keys(v)[i] : i \in 1..Len(Keys(v))}

Has(v, k) == k \in KeySet(v)

\* v[k] on a value that is neither undefined nor null (those throw)
Get(v, k) ==
    CASE v.t = "object" ->
            IF \E i \in 1..Len(v.o) : v.o[i][1] = k
            THEN v.o[CHOOSE i \in 1..Len(v.o) : v.o[i][1] = k][2]
            ELSE Undefined
      [] v.t = "array" ->
            IF \E i \in 1..Len(v.a) : ToString(i - 1) = k
            THEN v.a[CHOOSE i \in 1..Len(v.a) : ToString(i - 1) = k]
            ELSE Undefined
      [] v.t = "string" ->
            IF \E i \in 1..Len(v.s) : ToString(i - 1) = k
            THEN Str(<<v.s[CHOOSE i \in 1..Len(v.s) : ToString(i - 1) = k]>>)
            ELSE Undefined
      [] OTHER -> Undefined

\* v.k throws a TypeError
Unreadable(v) == v.t \in {"undefined", "null"}

\* o[k] = x on an object: an existing key keeps its place, a new one is appended
Set(o, k, x) ==
    IF \E i \in 1..Len(o.o) : o.o[i][1] = k
    THEN Obj([i \in 1..Len(o.o) |-> IF o.o[i][1] = k THEN <<k, x>> ELSE o.o[i]])
    ELSE Obj(Append(o.o, <<k, x>>))

\* delete o[k] on an object
Delete(o, k) == Obj(SelectSeq(o.o, LAMBDA p : p[1] # k))

\* { ...v }
Spread(v) == Obj([i \in 1..Len(Keys(v)) |-> <<Keys(v)[i], Get(v, Keys(v)[i])>>])

----------------------------------------------------------------------------
(* JSON text.  The text of a document is modelled by the tree JSON.parse   *)
(* reads back from it: properties whose value is undefined are not written,*)
(* an undefined array element is written as null, key order is kept.       *)

RECURSIVE Stringify(_)
Stringify(v) ==
    CASE v.t = "object" ->
            LET kept == SelectSeq(v.o, LAMBDA p : p[2] # Undefined)
            IN  Obj([i \in 1..Len(kept) |-> <<kept[i][1], Stringify(kept[i][2])>>])
      [] v.t = "array" ->
            Arr([i \in 1..Len(v.a) |->
                    IF v.a[i] = Undefined THEN Null ELSE Stringify(v.a[i])])
      [] OTHER -> v

\* fs.pathExists + fs.readFile + JSON.parse of a live document, with the
\* fallback of getSettings / getClaudeConfigJson
ReadOrEmpty(file) == IF file \in {Missing, Malformed} THEN EmptyObj ELSE file

----------------------------------------------------------------------------
(* ConfigManager *)

DefaultTokenLabel == "默认Token"

\* getClaudeConfig(siteConfig): claude first, then the legacy config
getClaudeConfig(siteConfig) ==
    IF Unreadable(siteConfig) THEN Error("TypeError")
    ELSE IF Truthy(Get(siteConfig, "claude")) THEN Get(siteConfig, "claude")
    ELSE IF Truthy(Get(siteConfig, "config")) THEN Get(siteConfig, "config")
    ELSE Error("MissingConfigFragment")

\* the key under which getClaudeConfig found the fragment
FragmentKey(siteConfig) ==
    IF Truthy(Get(siteConfig, "claude")) THEN "claude" ELSE "config"

\* the values of the properties of v, in order
Values(v) == [i \in 1..Len(Keys(v)) |-> Get(v, Keys(v)[i])]

\* some site of `sites` is null, so that site.claude / site.config throws
SomeSiteUnreadable(sites) ==
    \E i \in 1..Len(Keys(sites)) : Unreadable(Values(sites)[i])

\* the alias pass run the other way: a legacy config copied forward to claude
AliasSiteForward(site) ==
    IF IsObj(site) /\ Truthy(Get(site, "config")) /\ ~Truthy(Get(site, "claude"))
    THEN Set(site, "claude", Get(site, "config"))
    ELSE site

\* the loop body of getAllConfigs on one site
AliasSite(site) ==
    IF IsObj(site) /\ Truthy(Get(site, "claude")) /\ ~Truthy(Get(site, "config"))
    THEN Set(site, "config", Get(site, "claude"))
    ELSE site

\* apply f to every property of the object `sites`
MapSites(sites, f(_)) ==
    IF IsObj(sites)
    THEN Obj([i \in 1..Len(sites.o) |-> <<sites.o[i][1], f(sites.o[i][2])>>])
    ELSE sites

\* getAllConfigs(): the parsed store with the alias pass applied, or the error
getAllConfigs(file) ==
    IF file = Missing THEN Error("ConfigFileMissing")
    ELSE IF file = Malformed \/ Unreadable(file) THEN Error("ConfigReadFailed")
    ELSE IF ~Truthy(Get(file, "sites")) THEN file
    ELSE IF SomeSiteUnreadable(Get(file, "sites")) THEN Error("ConfigReadFailed")
    ELSE Set(file, "sites", MapSites(Get(file, "sites"), AliasSite))

\* NormalizeSite whose migration forgets `delete site.config`
NormalizeSiteKeepLegacy(site) ==
    IF ~IsObj(site) THEN site
    ELSE IF Truthy(Get(site, "config")) /\ ~Truthy(Get(site, "claude"))
    THEN Set(site, "claude", Get(site, "config"))
    ELSE IF Truthy(Get(site, "claude")) /\ Truthy(Get(site, "config"))
    THEN IF Stringify(Get(site, "claude")) = Stringify(Get(site, "config"))
         THEN Delete(site, "config")
         ELSE site
    ELSE site

\* NormalizeSite without the comparison that drops a redundant config
NormalizeSiteNoDedup(site) ==
    IF ~IsObj(site) THEN site
    ELSE IF Truthy(Get(site, "config")) /\ ~Truthy(Get(site, "claude"))
    THEN Delete(Set(site, "claude", Get(site, "config")), "config")
    ELSE site

\* the loop body of normalizeConfig on one site
NormalizeSite(site) ==
    IF ~IsObj(site) THEN site
    ELSE IF Truthy(Get(site, "config")) /\ ~Truthy(Get(site, "claude"))
    THEN Delete(Set(site, "claude", Get(site, "config")), "config")
    ELSE IF Truthy(Get(site, "claude")) /\ Truthy(Get(site, "config"))
    THEN IF Stringify(Get(site, "claude")) = Stringify(Get(site, "config"))
         THEN Delete(site, "config")
         ELSE site
    ELSE site

\* normalizeConfig(config)
normalizeConfig(config) ==
    IF ~Truthy(Get(config, "sites")) THEN config
    ELSE IF SomeSiteUnreadable(Get(config, "sites")) THEN Error("TypeError")
    ELSE Set(config, "sites", MapSites(Get(config, "sites"), NormalizeSite))

\* new Date().toISOString()
ISOString(now) == Str(<<ToString(now)>>)

\* the record saveCurrentConfig builds from its argument
ConfigToSave(config, now) ==
    Obj(<< <<"site", Get(config, "site")>>,
           <<"siteName", Get(config, "siteName")>>,
           <<"url", Get(config, "url")>>,
           <<"urlName", Get(config, "urlName")>>,
           <<"token", Get(config, "token")>>,
           <<"tokenName", Get(config, "tokenName")>>,
           <<"updatedAt", ISOString(now)>> >>)

\* saveCurrentConfig(config): the text written to the store, or the error
saveCurrentConfig(config, file, now) ==
    LET allConfigs == getAllConfigs(file)
    IN  IF IsError(allConfigs) \/ ~IsObj(allConfigs) THEN Error("SaveCurrentConfigFailed")
        ELSE LET normalizedConfig ==
                     normalizeConfig(Set(allConfigs, "currentConfig", ConfigToSave(config, now)))
             IN  IF IsError(normalizedConfig) THEN Error("SaveCurrentConfigFailed")
                 ELSE Stringify(normalizedConfig)

\* the record saveCurrentCodexConfig builds from its argument
CodexConfigToSave(config, now) ==
    Obj(<< <<"site", Get(config, "site")>>,
           <<"siteName", Get(config, "siteName")>>,
           <<"model", Get(config, "model")>>,
           <<"apiKey", Get(config, "apiKey")>>,
           <<"apiKeyName", Get(config, "apiKeyName")>>,
           <<"provider", Get(config, "provider")>>,
           <<"providerName", Get(config, "providerName")>>,
           <<"baseUrl", Get(config, "baseUrl")>>,
           <<"updatedAt", ISOString(now)>> >>)

\* saveCurrentCodexConfig(config): the text written to the store, or the error
saveCurrentCodexConfig(config, file, now) ==
    LET allConfigs == getAllConfigs(file)
    IN  IF IsError(allConfigs) \/ ~IsObj(allConfigs) THEN Error("SaveCurrentCodexConfigFailed")
        ELSE LET normalizedConfig ==
                     normalizeConfig(Set(allConfigs, "currentCodexConfig",
                                         CodexConfigToSave(config, now)))
             IN  IF IsError(normalizedConfig) THEN Error("SaveCurrentCodexConfigFailed")
                 ELSE Stringify(normalizedConfig)

\* getCurrentConfig(): the stored selection, or null; a load error is caught,
\* logged as a warning, and null is returned
getCurrentConfig(file) ==
    LET allConfigs == getAllConfigs(file)
    IN  IF IsError(allConfigs) THEN Null
        ELSE IF Truthy(Get(allConfigs, "currentConfig"))
        THEN Get(allConfigs, "currentConfig")
        ELSE Null

\* getCurrentCodexConfig(): likewise for the Codex selection
getCurrentCodexConfig(file) ==
    LET allConfigs == getAllConfigs(file)
    IN  IF IsError(allConfigs) THEN Null
        ELSE IF Truthy(Get(allConfigs, "currentCodexConfig"))
        THEN Get(allConfigs, "currentCodexConfig")
        ELSE Null

\* getSettings()
getSettings(file) == ReadOrEmpty(file)

\* getClaudeConfigJson()
getClaudeConfigJson(file) == ReadOrEmpty(file)

\* a merge of the top level only (Object.assign): nested objects are replaced
ShallowMerge(target, source) ==
    LET t == Spread(target)
    IN  Obj([i \in 1..Len(t.o) |->
                IF Has(source, t.o[i][1])
                THEN <<t.o[i][1], Get(source, t.o[i][1])>>
                ELSE t.o[i]]
            \o SelectSeq(source.o, LAMBDA p : ~Has(t, p[1])))

\* deepMerge(target, source); MergeFrom is its for-in loop from the i-th key on
RECURSIVE deepMerge(_, _), MergeFrom(_, _, _)
deepMerge(target, source) == MergeFrom(Spread(target), source, 1)

MergeFrom(result, source, i) ==
    IF i > Len(Keys(source)) THEN result
    ELSE LET key == Keys(source)[i]
             sv  == Get(source, key)
             old == Get(result, key)
             nv  == IF IsObj(sv)
                    THEN deepMerge(IF Truthy(old) THEN old ELSE EmptyObj, sv)
                    ELSE sv
         IN  MergeFrom(Set(result, key, nv), source, i + 1)

\* the env keys switchConfig deletes from the live settings before merging
ClearedEnvKeys ==
    << "ANTHROPIC_AUTH_TOKEN", "ANTHROPIC_AUTH_KEY", "ANTHROPIC_API_KEY",
       "ANTHROPIC_MODEL", "ANTHROPIC_BASE_URL", "ANTHROPIC_VERTEX_BASE_URL",
       "ANTHROPIC_VERTEX_PROJECT_ID", "CLAUDE_CODE_USE_VERTEX",
       "CLAUDE_CODE_SKIP_VERTEX_AUTH" >>

ClearedEnvKeySet == {ClearedEnvKeys[i] : i \in 1..Len(ClearedEnvKeys)}

\* ClearSettings without the deletes of the URL and Vertex keys
ClearSettingsAuthOnly(currentSettings) ==
    LET env     == Get(currentSettings, "env")
        authKeys == {"ANTHROPIC_AUTH_TOKEN", "ANTHROPIC_AUTH_KEY", "ANTHROPIC_API_KEY",
                     "ANTHROPIC_MODEL"}
        cleared == IF Truthy(env) /\ IsObj(env)
                   THEN Set(currentSettings, "env",
                            Obj(SelectSeq(env.o, LAMBDA p : p[1] \notin authKeys)))
                   ELSE currentSettings
    IN  Delete(cleared, "model")

\* the deletes of switchConfig on currentSettings
ClearSettings(currentSettings) ==
    LET env     == Get(currentSettings, "env")
        cleared == IF Truthy(env) /\ IsObj(env)
                   THEN Set(currentSettings, "env",
                            Obj(SelectSeq(env.o, LAMBDA p : p[1] \notin ClearedEnvKeySet)))
                   ELSE currentSettings
    IN  Delete(cleared, "model")

\* Object.keys(tokens).find(key => tokens[key] === token)
FindTokenName(tokens, token) ==
    LET hits == {i \in 1..Len(Keys(tokens)) : Get(tokens, Keys(tokens)[i]) = token}
    IN  IF hits = {} THEN Undefined
        ELSE KeyStr(Keys(tokens)[CHOOSE i \in hits : \A j \in hits : i <= j])

\* the selection switchConfig builds and returns
Selection(site, token, tokenName, env) ==
    Obj(<< <<"site", site>>,
           <<"siteName", site>>,
           <<"ANTHROPIC_BASE_URL", Get(env, "ANTHROPIC_BASE_URL")>>,
           <<"token", token>>,
           <<"tokenName", tokenName>> >>)

\* primaryApiKey set only where the document has none yet
KeepPrimaryApiKey(currentConfigJson, siteName) ==
    IF Truthy(Get(currentConfigJson, "primaryApiKey"))
    THEN currentConfigJson
    ELSE Set(currentConfigJson, "primaryApiKey", siteName)

\* the live config document with primaryApiKey dropped and set again
SetPrimaryApiKey(currentConfigJson, siteName) ==
    Set(IF Truthy(Get(currentConfigJson, "primaryApiKey"))
        THEN Delete(currentConfigJson, "primaryApiKey")
        ELSE currentConfigJson,
        "primaryApiKey", siteName)

\* env with ANTHROPIC_AUTH_TOKEN replaced by the selected token
UseToken(env, token) ==
    IF Truthy(env) /\ Truthy(Get(env, "ANTHROPIC_AUTH_TOKEN"))
    THEN Set(env, "ANTHROPIC_AUTH_TOKEN", token)
    ELSE env

\* the token table with a missing ANTHROPIC_AUTH_TOKEN read as no tokens
TokensOrNone(rawTokens) ==
    IF TypeOf(rawTokens) = "string"
    THEN Obj(<< <<DefaultTokenLabel, rawTokens>> >>)
    ELSE IF Truthy(rawTokens) THEN rawTokens ELSE EmptyObj

\* the label-to-token table switchConfig searches: a single string is the
\* token of the default label
TokensOf(rawTokens) ==
    IF TypeOf(rawTokens) = "string"
    THEN Obj(<< <<DefaultTokenLabel, rawTokens>> >>)
    ELSE rawTokens

\* the names of the three files, as the write log records them
StoreName      == "api_configs.json"
SettingsName   == "settings.json"
ConfigJsonName == "config.json"

\* the outcome of a switchConfig that threw after the writes of `wrote`
Failed(store, settings, configJson, siteConfig, wrote) ==
    [ret |-> Error("SwitchFailed"), store |-> store, settings |-> settings,
     configJson |-> configJson, siteConfig |-> siteConfig, written |-> wrote]

\* switchConfig(site, token, siteConfig) on the three files at time `now`:
\* what it returns, what the files hold afterwards, and the caller's siteConfig
\* object afterwards (configToMerge.env is the fragment's own env object)
switchConfig(site, token, siteConfig, store, settings, configJson, now) ==
    LET claudeConfig == getClaudeConfig(siteConfig)
        unchanged    == Failed(store, settings, configJson, siteConfig, <<>>)
    IN
    IF IsError(claudeConfig) \/ Unreadable(Get(claudeConfig, "env")) THEN unchanged
    ELSE
    LET env       == Get(claudeConfig, "env")
        rawTokens == Get(env, "ANTHROPIC_AUTH_TOKEN")
        tokens    == TokensOf(rawTokens)
    IN
    IF Unreadable(tokens) THEN unchanged
    ELSE
    LET tokenName == FindTokenName(tokens, token)
        config    == Selection(site, token, tokenName, env)
        saved     == saveCurrentConfig(config, store, now)
    IN
    IF IsError(saved) THEN unchanged
    ELSE
    LET currentSettings   == ReadOrEmpty(settings)
        currentConfigJson == ReadOrEmpty(configJson)
    IN
    IF Unreadable(currentConfigJson) \/ Unreadable(currentSettings)
    THEN Failed(saved, settings, configJson, siteConfig, <<StoreName>>)
    ELSE
    LET newConfigJson  == SetPrimaryApiKey(currentConfigJson, Get(config, "siteName"))
        newEnv         == UseToken(env, token)
        configToMerge  == Set(Spread(claudeConfig), "env", newEnv)
        mergedSettings == deepMerge(ClearSettings(currentSettings), configToMerge)
    IN  [ret        |-> config,
         store      |-> saved,
         settings   |-> Stringify(mergedSettings),
         configJson |-> Stringify(newConfigJson),
         siteConfig |-> Set(siteConfig, FragmentKey(siteConfig),
                            Set(claudeConfig, "env", newEnv)),
         written    |-> <<StoreName, SettingsName, ConfigJsonName>>]

\* the whitespace symbols String.prototype.trim strips
IsBlank(c) == c \in {" ", "\t", "\n"}

\* s.trim()
Trim(s) ==
    LET solid == {i \in 1..Len(s) : ~IsBlank(s[i])}
    IN  IF solid = {} THEN <<>>
        ELSE LET first == CHOOSE i \in solid : \A j \in solid : i <= j
                 last  == CHOOSE i \in solid : \A j \in solid : j <= i
             IN  SubSeq(s, first, last)

\* the loop body of validateConfig: TRUE to go on to the next site, FALSE for
\* `return false`
ValidateSite(siteConfig) ==
    IF ~Truthy(Get(siteConfig, "url")) THEN FALSE
    ELSE
    LET actualConfig == getClaudeConfig(siteConfig) IN
    IF IsError(actualConfig) THEN FALSE
    ELSE IF ~Truthy(Get(actualConfig, "env")) THEN FALSE
    ELSE
    LET env              == Get(actualConfig, "env")
        authToken        == Get(env, "ANTHROPIC_AUTH_TOKEN")
        hasBaseUrl       == Truthy(Get(env, "ANTHROPIC_BASE_URL"))
        hasVertexBaseUrl == Truthy(Get(env, "ANTHROPIC_VERTEX_BASE_URL"))
    IN
    IF ~Truthy(authToken) THEN FALSE
    ELSE IF hasBaseUrl /\ hasVertexBaseUrl THEN FALSE
    ELSE IF ~hasBaseUrl /\ ~hasVertexBaseUrl THEN FALSE
    ELSE IF hasBaseUrl /\ TypeOf(Get(env, "ANTHROPIC_BASE_URL")) # "string" THEN FALSE
    ELSE IF hasVertexBaseUrl /\ TypeOf(Get(env, "ANTHROPIC_VERTEX_BASE_URL")) # "string"
    THEN FALSE
    ELSE IF TypeOf(authToken) = "string" THEN Trim(authToken.s) # <<>>
    ELSE IF TypeOf(authToken) = "object" /\ authToken # Null
    THEN Len(Keys(authToken)) # 0
    ELSE FALSE

\* validateConfig(config): Bool(TRUE), Bool(FALSE), or the TypeError a null
\* site raises when the loop reaches it
validateConfig(config) ==
    IF ~Truthy(config) \/ TypeOf(config) # "object" THEN Bool(FALSE)
    ELSE IF ~Truthy(Get(config, "sites")) \/ TypeOf(Get(config, "sites")) # "object"
    THEN Bool(FALSE)
    ELSE
    LET sites == Values(Get(config, "sites"))
        stops == {i \in 1..Len(sites) : Unreadable(sites[i]) \/ ~ValidateSite(sites[i])}
    IN  IF stops = {} THEN Bool(TRUE)
        ELSE LET i == CHOOSE i \in stops : \A j \in stops : i <= j
             IN  IF Unreadable(sites[i]) THEN Error("TypeError") ELSE Bool(FALSE)

----------------------------------------------------------------------------
(* The documents and arguments the operations are run on *)

MaxCalls == 2   \* operations in one run

\* an object literal: the listed properties, those given as Undefined left out
Lit(pairs) == Obj(SelectSeq(pairs, LAMBDA p : p[2] # Undefined))

TokA      == Str(<<"sk-abc">>)
TokB      == Str(<<"sk-def">>)
TokManual == Str(<<"sk-manual">>)
EmptyStr  == Str(<<>>)
UrlA      == Str(<<"https://api.example.com">>)
UrlV      == Str(<<"https://vertex.example.com">>)

TokenMap == Lit(<< <<"Primary", TokA>>, <<"Backup", TokB>> >>)

\* an env block of a fragment
EnvOf(token, base, vertex, extra) ==
    Lit(<< <<"ANTHROPIC_BASE_URL", base>>,
           <<"ANTHROPIC_VERTEX_BASE_URL", vertex>>,
           <<"CLAUDE_CODE_USE_VERTEX", IF vertex = Undefined THEN Undefined ELSE Str(<<"1">>)>>,
           <<"ANTHROPIC_AUTH_TOKEN", token>>,
           <<"API_TIMEOUT_MS", extra>> >>)

\* a fragment: env, a top-level model, and a permissions block
FragmentOf(env, model, permissions) ==
    Lit(<< <<"env", env>>, <<"model", model>>, <<"permissions", permissions>> >>)

\* a site entry
SiteOf(url, claude, config) ==
    Lit(<< <<"url", url>>, <<"claude", claude>>, <<"config", config>> >>)

AllowRead == Lit(<< <<"allow", Arr(<<Str(<<"Read">>)>>)>> >>)

\* the fragments switchConfig is given
SwitchFragments ==
    { FragmentOf(EnvOf(tok, UrlA, Undefined, Undefined), Undefined, Undefined)
        : tok \in {TokA, TokenMap, EmptyStr, EmptyObj, Undefined, Num(0)} }
    \cup
    { FragmentOf(EnvOf(TokenMap, Undefined, UrlV, Str(<<"600000">>)), Str(<<"opus">>), Undefined),
      FragmentOf(EnvOf(TokA, UrlA, Undefined, Undefined), Undefined, AllowRead),
      FragmentOf(Undefined, Str(<<"opus">>), Undefined) }

\* the site entries switchConfig is given
SwitchSites ==
    { SiteOf(UrlA, f, Undefined) : f \in SwitchFragments }
    \cup
    { SiteOf(UrlA, Undefined, FragmentOf(EnvOf(TokenMap, UrlA, Undefined, Undefined),
                                         Undefined, Undefined)),
      SiteOf(UrlA, Undefined, Undefined) }

\* the site entries whose token is a map of labelled tokens
LabelledSites ==
    { SiteOf(UrlA, FragmentOf(EnvOf(TokenMap, UrlA, Undefined, Undefined),
                              Undefined, Undefined), Undefined),
      SiteOf(UrlA, FragmentOf(EnvOf(TokenMap, Undefined, UrlV, Str(<<"600000">>)),
                              Str(<<"opus">>), Undefined), Undefined) }

SiteNames == {Str(<<"siteA">>), Str(<<"siteB">>)}

ChosenTokens == {TokA, TokB, TokManual}

\* the (site, token, siteConfig) triples switchConfig is called with: every
\* entry under one name and one token, every name and token on a labelled entry
SwitchInputs ==
    ({Str(<<"siteA">>)} \X {TokA} \X SwitchSites)
    \cup (SiteNames \X ChosenTokens \X LabelledSites)

\* the credential store before the first operation
StoreInits ==
    { Missing, Malformed,
      Lit(<< <<"sites", Lit(<< <<"siteA", SiteOf(UrlA, Undefined,
                  FragmentOf(EnvOf(TokenMap, UrlA, Undefined, Undefined), Undefined, Undefined))>>,
               <<"siteB", SiteOf(UrlV,
                  FragmentOf(EnvOf(TokA, Undefined, UrlV, Undefined), Undefined, Undefined),
                  FragmentOf(EnvOf(TokA, Undefined, UrlV, Undefined), Undefined, Undefined))>> >>)>> >>) }

Hooks == Lit(<< <<"Stop", Arr(<<Str(<<"notify">>)>>)>> >>)

\* the live settings document before the first operation
SettingsInits ==
    { Missing, Malformed,
      Lit(<< <<"env", Lit(<< <<"ANTHROPIC_VERTEX_BASE_URL", UrlV>>,
                              <<"ANTHROPIC_VERTEX_PROJECT_ID", Str(<<"proj">>)>>,
                              <<"CLAUDE_CODE_USE_VERTEX", Str(<<"1">>)>>,
                              <<"CLAUDE_CODE_SKIP_VERTEX_AUTH", Str(<<"1">>)>>,
                              <<"ANTHROPIC_AUTH_TOKEN", TokenMap>>,
                              <<"HTTP_PROXY", Str(<<"http://proxy">>)>> >>)>>,
             <<"model", Str(<<"sonnet">>)>>,
             <<"hooks", Hooks>>,
             <<"permissions", Lit(<< <<"allow", Arr(<<Str(<<"Bash">>)>>)>>,
                                     <<"deny", Arr(<<Str(<<"WebFetch">>)>>)>> >>)>> >>),
      Lit(<< <<"env", Lit(<< <<"ANTHROPIC_BASE_URL", UrlA>>,
                              <<"ANTHROPIC_AUTH_KEY", TokB>>,
                              <<"ANTHROPIC_API_KEY", TokB>>,
                              <<"ANTHROPIC_MODEL", Str(<<"haiku">>)>>,
                              <<"API_TIMEOUT_MS", Str(<<"1000">>)>> >>)>>,
             <<"permissions", Str(<<"ask">>)>> >>) }

\* the live config document before the first operation
ConfigJsonInits ==
    { Missing,
      Lit(<< <<"primaryApiKey", Str(<<"oldSite">>)>>, <<"theme", Str(<<"dark">>)>> >>) }

NoArgs == <<>>

\* the YOLO hook process before it is started
NoHook == [stdin |-> <<>>, chunks |-> <<>>, stream |-> "closed", timer |-> "none",
           out |-> <<>>, status |-> "idle"]

Files == [store |-> storeFile, settings |-> settingsFile, configJson |-> configJsonFile]

----------------------------------------------------------------------------
(* The switch specification: any run of at most MaxCalls switchConfig calls *)

Init ==
    /\ storeFile \in StoreInits
    /\ settingsFile \in SettingsInits
    /\ configJsonFile \in ConfigJsonInits
    /\ clock = 0
    /\ op = "init"
    /\ args = NoArgs
    /\ ret = Undefined
    /\ pre = Files
    /\ calls = 0
    /\ written = <<>>
    /\ hook = NoHook

\* switchConfig(site, token, siteConfig) on a site entry object the caller
\* first held as `first`; args.after is that object when the call is over
Switches(site, token, siteConfig, first) ==
    /\ calls < MaxCalls
    /\ LET r == switchConfig(site, token, siteConfig,
                             storeFile, settingsFile, configJsonFile, clock)
       IN  /\ storeFile' = r.store
           /\ settingsFile' = r.settings
           /\ configJsonFile' = r.configJson
           /\ ret' = r.ret
           /\ args' = [site |-> site, token |-> token, siteConfig |-> siteConfig,
                       after |-> r.siteConfig, first |-> first]
           /\ written' = r.written
    /\ op' = "switchConfig"
    /\ pre' = Files
    /\ clock' = clock + 1
    /\ calls' = calls + 1
    /\ UNCHANGED hook

\* switchConfig on a site entry freshly read
SwitchConfig(site, token, siteConfig) == Switches(site, token, siteConfig, siteConfig)

\* switchConfig once more on the site entry object of the call before
SwitchAgain(token) ==
    /\ op = "switchConfig"
    /\ Switches(args.site, token, args.after, args.first)

Next ==
    \/ \E input \in SwitchInputs :
          SwitchConfig(input[1], input[2], input[3])
    \/ \E token \in ChosenTokens : SwitchAgain(token)

Spec == Init /\ [][Next]_vars

----------------------------------------------------------------------------
(* Properties of switchConfig *)

\* the last operation was a switchConfig that returned its selection
Switched == op = "switchConfig" /\ ~IsError(ret)

\* the fragment of the site entry as the caller passed it
GivenFragment == getClaudeConfig(args.siteConfig)

GivenEnv == Get(GivenFragment, "env")

DeclaredToken == Get(GivenEnv, "ANTHROPIC_AUTH_TOKEN")

LiveEnv == Get(settingsFile, "env")

PriorSettings == ReadOrEmpty(pre.settings)

PriorConfigJson == ReadOrEmpty(pre.configJson)

\* C1: after a successful switchConfig each of the nine cleared env keys, and
\* the top-level model, is in the written live settings only if the selected
\* fragment declares it; coming from a document with ANTHROPIC_VERTEX_BASE_URL
\* to a fragment declaring only ANTHROPIC_BASE_URL leaves the former absent
\* and the latter present.
C1_StaleKeysCleared ==
    Switched =>
        /\ \A k \in ClearedEnvKeySet : Has(LiveEnv, k) => Has(GivenEnv, k)
        /\ Has(settingsFile, "model") => Has(GivenFragment, "model")
        /\ ( /\ Has(GivenEnv, "ANTHROPIC_BASE_URL")
             /\ ~Has(GivenEnv, "ANTHROPIC_VERTEX_BASE_URL") )
           => ( /\ Has(LiveEnv, "ANTHROPIC_BASE_URL")
                /\ ~Has(LiveEnv, "ANTHROPIC_VERTEX_BASE_URL") )

\* a switch from a Vertex-style document to a plain ANTHROPIC_BASE_URL site
C1_Witness ==
    /\ Switched
    /\ Has(Get(PriorSettings, "env"), "ANTHROPIC_VERTEX_BASE_URL")
    /\ Has(PriorSettings, "model")
    /\ Has(GivenEnv, "ANTHROPIC_BASE_URL")
    /\ ~Has(GivenEnv, "ANTHROPIC_VERTEX_BASE_URL")
    /\ Has(LiveEnv, "ANTHROPIC_BASE_URL")
    /\ ~Has(LiveEnv, "ANTHROPIC_VERTEX_BASE_URL")
    /\ ~Has(settingsFile, "model")

\* C2: after a successful switchConfig whose fragment declares
\* env.ANTHROPIC_AUTH_TOKEN as a string or as a label-to-token mapping, the
\* live settings hold the chosen token string there, never the mapping.
C2_LiveTokenIsChosen ==
    (Switched /\ (IsStr(DeclaredToken) \/ IsObj(DeclaredToken))) =>
        /\ Get(LiveEnv, "ANTHROPIC_AUTH_TOKEN") = args.token
        /\ ~IsObj(Get(LiveEnv, "ANTHROPIC_AUTH_TOKEN"))

\* the base URL a persisted selection records
RecordedUrl(selection) ==
    IF Has(selection, "url") THEN Get(selection, "url")
    ELSE Get(selection, "ANTHROPIC_BASE_URL")

\* C3: after a successful switchConfig the currentConfig persisted in the
\* credential store records the selection returned to the caller: site,
\* siteName equal to site, the fragment's env.ANTHROPIC_BASE_URL, the chosen
\* token and the resolved token name.
C3_PersistedIsReturned ==
    Switched =>
        LET saved == Get(storeFile, "currentConfig")
        IN  /\ Get(saved, "site") = args.site
            /\ Get(saved, "siteName") = args.site
            /\ Get(saved, "token") = args.token
            /\ Get(saved, "tokenName") = Get(ret, "tokenName")
            /\ Get(ret, "ANTHROPIC_BASE_URL") = Get(GivenEnv, "ANTHROPIC_BASE_URL")
            /\ RecordedUrl(saved) = Get(GivenEnv, "ANTHROPIC_BASE_URL")

\* the labels of the declared token(s) whose value is the chosen token
MatchingLabels ==
    IF IsStr(DeclaredToken)
    THEN IF DeclaredToken = args.token THEN {DefaultTokenLabel} ELSE {}
    ELSE {k \in KeySet(DeclaredToken) : Get(DeclaredToken, k) = args.token}

\* C4: with the store loadable and the token declared as a string or a
\* mapping, switchConfig succeeds; tokenName is a label whose value is the
\* chosen token (the default label for a single string), or undefined when
\* no label matches, and the chosen token is written to the live settings.
C4_TokenNameResolved ==
    ( /\ op = "switchConfig"
      /\ pre.store \notin {Missing, Malformed}
      /\ ~IsError(GivenFragment)
      /\ ~Unreadable(GivenEnv)
      /\ (IsStr(DeclaredToken) \/ IsObj(DeclaredToken)) )
    => /\ ~IsError(ret)
       /\ IF MatchingLabels = {}
          THEN Get(ret, "tokenName") = Undefined
          ELSE \E k \in MatchingLabels : Get(ret, "tokenName") = KeyStr(k)
       /\ Get(LiveEnv, "ANTHROPIC_AUTH_TOKEN") = args.token

\* the paths from v down to its leaves (anything but a non-empty object)
RECURSIVE LeafPaths(_)
LeafPaths(v) ==
    IF IsObj(v) /\ Len(v.o) > 0
    THEN UNION { { <<k>> \o p : p \in LeafPaths(Get(v, k)) } : k \in KeySet(v) }
    ELSE { <<>> }

\* the value at path p of v
RECURSIVE At(_, _)
At(v, p) ==
    IF p = <<>> THEN v
    ELSE IF ~IsObj(v) THEN Undefined
    ELSE At(Get(v, Head(p)), Tail(p))

IsPrefix(p, q) == Len(p) <= Len(q) /\ SubSeq(q, 1, Len(p)) = p

\* p is, or lies under, one of the cleared keys
PreCleared(p) ==
    \/ IsPrefix(<<"model">>, p)
    \/ \E k \in ClearedEnvKeySet : IsPrefix(<<"env", k>>, p)

\* the fragment declares p, something under p, or something p lies under
Declared(p) ==
    \E q \in LeafPaths(GivenFragment) : IsPrefix(p, q) \/ IsPrefix(q, p)

\* C5: a successful switchConfig leaves every key path of the prior live
\* settings that is neither pre-cleared nor declared by the fragment at the
\* value it had.
C5_OtherSettingsPreserved ==
    Switched =>
        \A p \in LeafPaths(PriorSettings) :
            (~PreCleared(p) /\ ~Declared(p)) => At(settingsFile, p) = At(PriorSettings, p)

\* hooks, an unrelated env entry and permissions.deny survive a switch to a
\* fragment that declares permissions.allow
C5_Witness ==
    /\ Switched
    /\ Has(GivenFragment, "permissions")
    /\ At(GivenFragment, <<"permissions", "allow">>) # Undefined
    /\ At(PriorSettings, <<"permissions", "deny">>) # Undefined
    /\ At(PriorSettings, <<"permissions", "allow">>) # At(settingsFile, <<"permissions", "allow">>)
    /\ At(settingsFile, <<"permissions", "deny">>) = At(PriorSettings, <<"permissions", "deny">>)
    /\ At(settingsFile, <<"env", "HTTP_PROXY">>) = Str(<<"http://proxy">>)
    /\ At(settingsFile, <<"hooks">>) = Hooks

\* C6: after a successful switchConfig(site, ...) the live config document's
\* primaryApiKey is site, as is the site of the store's currentConfig, and
\* every other key of the live config document is as it was.
C6_PrimaryApiKeyIsSite ==
    Switched =>
        /\ Get(configJsonFile, "primaryApiKey") = args.site
        /\ Get(Get(storeFile, "currentConfig"), "site") = args.site
        /\ KeySet(configJsonFile) \ {"primaryApiKey"}
             = KeySet(PriorConfigJson) \ {"primaryApiKey"}
        /\ \A k \in KeySet(PriorConfigJson) \ {"primaryApiKey"} :
              Get(configJsonFile, k) = Get(PriorConfigJson, k)

\* a switch to a site other than the one an earlier switch had selected
C6_Witness ==
    /\ Switched
    /\ Get(PriorConfigJson, "primaryApiKey") \in SiteNames
    /\ Get(PriorConfigJson, "primaryApiKey") # args.site
    /\ Get(Get(pre.store, "currentConfig"), "site") # args.site
    /\ Has(PriorConfigJson, "theme")
    /\ Get(configJsonFile, "primaryApiKey") = args.site

\* the switch meets one of the early errors: the site entry has neither
\* claude nor config, its fragment has no env or no ANTHROPIC_AUTH_TOKEN, or
\* the store file is missing or malformed
EarlyError ==
    \/ IsError(GivenFragment)
    \/ Unreadable(GivenEnv)
    \/ ~Has(GivenEnv, "ANTHROPIC_AUTH_TOKEN")
    \/ pre.store \in {Missing, Malformed}

\* C13: a switchConfig that meets an early error throws the one wrapped
\* error and writes none of the three files; whenever switchConfig writes a
\* live document it has written the credential store before.
C13_FailsClean ==
    op = "switchConfig" =>
        /\ EarlyError =>
              /\ ret = Error("SwitchFailed")
              /\ written = <<>>
              /\ Files = pre
        /\ \A i \in 1..Len(written) :
              written[i] \in {SettingsName, ConfigJsonName}
                 => \E j \in 1..(i - 1) : written[j] = StoreName

\* a switch to a fragment without ANTHROPIC_AUTH_TOKEN, with a loadable store
\* and live documents in place, after an earlier switch had written all three
C13_Witness ==
    /\ op = "switchConfig"
    /\ calls = 2
    /\ IsObj(pre.store) /\ IsObj(pre.settings) /\ IsObj(pre.configJson)
    /\ Has(pre.store, "currentConfig")
    /\ ~IsError(GivenFragment)
    /\ ~Unreadable(GivenEnv)
    /\ ~Has(GivenEnv, "ANTHROPIC_AUTH_TOKEN")
    /\ IsError(ret)
    /\ written = <<>>
    /\ Files = pre

\* the labels under which the site entry, as the caller first held it,
\* declares the chosen token
FirstLabels ==
    LET declared == Get(Get(getClaudeConfig(args.first), "env"), "ANTHROPIC_AUTH_TOKEN")
    IN  IF IsObj(declared)
        THEN {KeyStr(k) : k \in {l \in KeySet(declared) : Get(declared, l) = args.token}}
        ELSE {}

\* C18: switchConfig leaves the site entry it is given, and its fragment, as
\* they are; a later switchConfig on the same entry object with another token
\* of its token mapping resolves the label of that token.
C18_SiteEntryReadOnly ==
    Switched =>
        /\ args.after = args.siteConfig
        /\ FirstLabels # {} => Get(ret, "tokenName") \in FirstLabels

----------------------------------------------------------------------------
(* The load specification: getAllConfigs on a store of up to MaxSites sites *)

MaxSites == 2   \* site entries in a store

SiteKey(i) == "site" \o ToString(i)

\* the stores of 1..MaxSites sites that hold one site of `varied`, at any
\* place, among sites of `others`
StoresOf(varied, others) ==
    UNION { UNION { { Lit(<< <<"sites",
                         Obj([i \in 1..n |-> <<SiteKey(i), IF i = j THEN v ELSE f[i]>>])>> >>)
                      : v \in varied, f \in [1..n -> others] }
                    : j \in 1..n }
            : n \in 1..MaxSites }

FragA == FragmentOf(EnvOf(TokenMap, UrlA, Undefined, Undefined), Undefined, Undefined)
FragV == FragmentOf(EnvOf(TokA, Undefined, UrlV, Undefined), Undefined, Undefined)

\* what a site's claude or config field may hold
FragmentFields == {Undefined, FragA, FragV, EmptyObj, Null}

\* sites with only claude, only config, both alike, both different, neither
MixedSites ==
    { SiteOf(UrlA, c, l) : c \in FragmentFields, l \in FragmentFields } \cup { Null }

\* the sites that stand beside the varied one
PlainSites ==
    { SiteOf(UrlA, FragA, Undefined), SiteOf(UrlV, Undefined, FragV), SiteOf(UrlA, FragA, FragV) }

LoadStores ==
    { Missing, Malformed, Lit(<< <<"currentConfig", EmptyObj>> >>) }
    \cup StoresOf(MixedSites, PlainSites)

InitLoad ==
    /\ storeFile \in LoadStores
    /\ settingsFile = Missing
    /\ configJsonFile = Missing
    /\ clock = 0
    /\ op = "init"
    /\ args = NoArgs
    /\ ret = Undefined
    /\ pre = Files
    /\ calls = 0
    /\ written = <<>>
    /\ hook = NoHook

GetAllConfigs ==
    /\ calls < MaxCalls
    /\ ret' = getAllConfigs(storeFile)
    /\ op' = "getAllConfigs"
    /\ args' = NoArgs
    /\ pre' = Files
    /\ calls' = calls + 1
    /\ written' = <<>>
    /\ UNCHANGED <<storeFile, settingsFile, configJsonFile, clock, hook>>

NextLoad == GetAllConfigs

SpecLoad == InitLoad /\ [][NextLoad]_vars

Loaded == op = "getAllConfigs" /\ ~IsError(ret)

\* the sites of a store document
SitesIn(store) == Get(store, "sites")

\* C7 as stated: getAllConfigs returns every site that has config but no
\* claude with claude set to that config, so that every returned site with a
\* fragment has it under claude, and removes no field.
C7_ConfigCopiedToClaude ==
    Loaded =>
        \A k \in KeySet(SitesIn(storeFile)) :
            LET before == Get(SitesIn(storeFile), k)
                after  == Get(SitesIn(ret), k)
            IN  /\ (Has(before, "config") /\ ~Has(before, "claude"))
                      => Get(after, "claude") = Get(before, "config")
                /\ (Truthy(Get(before, "claude")) \/ Truthy(Get(before, "config")))
                      => Truthy(Get(after, "claude"))
                /\ KeySet(before) \subseteq KeySet(after)

\* C7 as amended: the copy goes from claude to config.  A site with a claude
\* fragment and no config comes back with config set to that claude; every
\* other site (one with only the legacy config among them) comes back as it
\* is; every returned site with a fragment has a config; no field is removed
\* and the file is not written.
C7_ClaudeCopiedToConfig ==
    Loaded =>
        /\ storeFile = pre.store
        /\ KeySet(ret) = KeySet(storeFile)
        /\ \A k \in KeySet(storeFile) \ {"sites"} : Get(ret, k) = Get(storeFile, k)
        /\ Keys(SitesIn(ret)) = Keys(SitesIn(storeFile))
        /\ \A k \in KeySet(SitesIn(storeFile)) :
            LET before == Get(SitesIn(storeFile), k)
                after  == Get(SitesIn(ret), k)
            IN  /\ IF Truthy(Get(before, "claude")) /\ ~Truthy(Get(before, "config"))
                   THEN after = Set(before, "config", Get(before, "claude"))
                   ELSE after = before
                /\ (Truthy(Get(before, "claude")) \/ Truthy(Get(before, "config")))
                      => Truthy(Get(after, "config"))
                /\ KeySet(before) \subseteq KeySet(after)

\* a store with a claude-only site, which gains config, and a legacy
\* config-only site, which stays without claude
C7_Witness ==
    /\ Loaded
    /\ \E k \in KeySet(SitesIn(storeFile)) :
          /\ Get(Get(SitesIn(storeFile), k), "claude") = FragA
          /\ ~Has(Get(SitesIn(storeFile), k), "config")
          /\ Get(Get(SitesIn(ret), k), "config") = FragA
    /\ \E k \in KeySet(SitesIn(storeFile)) :
          /\ Get(Get(SitesIn(storeFile), k), "config") = FragV
          /\ ~Has(Get(SitesIn(storeFile), k), "claude")
          /\ ~Has(Get(SitesIn(ret), k), "claude")

----------------------------------------------------------------------------
(* The validation specification: validateConfig on one store *)

Blank      == Str(<<" ">>)
PaddedTokA == Str(<<" ", "sk-abc", " ">>)

\* values a user may have put under ANTHROPIC_AUTH_TOKEN
TokenValues ==
    { TokA, TokenMap, PaddedTokA, Undefined, EmptyStr, Blank, EmptyObj, Null,
      Num(0), Num(7), Bool(TRUE), Bool(FALSE), Arr(<<>>), Arr(<<TokA>>) }

\* values a user may have put under either base-URL key
UrlValues ==
    { Undefined, UrlA, EmptyStr, Null, Num(0), Num(8080), Bool(FALSE), EmptyObj }

\* an env block with exactly the given token and base-URL values
PlainEnv(token, base, vertex) ==
    Lit(<< <<"ANTHROPIC_BASE_URL", base>>,
           <<"ANTHROPIC_VERTEX_BASE_URL", vertex>>,
           <<"ANTHROPIC_AUTH_TOKEN", token>> >>)

\* two sites validateConfig accepts
GoodSites == { SiteOf(UrlA, FragA, Undefined), SiteOf(UrlV, Undefined, FragV) }

\* sites that vary the token, the two base URLs, url and the fragment itself
ValidateSites ==
    { SiteOf(UrlA, FragmentOf(PlainEnv(tok, UrlA, Undefined), Undefined, Undefined), Undefined)
        : tok \in TokenValues }
    \cup
    { SiteOf(UrlA, FragmentOf(PlainEnv(tok, Undefined, UrlV), Undefined, Undefined), Undefined)
        : tok \in TokenValues }
    \cup
    { SiteOf(UrlA, FragmentOf(PlainEnv(tok, b, v), Undefined, Undefined), Undefined)
        : tok \in {TokA, TokenMap}, b \in UrlValues, v \in UrlValues }
    \cup
    { SiteOf(u, FragA, Undefined) : u \in {Undefined, EmptyStr, Null, UrlA} }
    \cup
    { SiteOf(UrlA, Undefined, Undefined), SiteOf(UrlA, EmptyObj, FragA),
      SiteOf(UrlA, FragmentOf(Undefined, Str(<<"opus">>), Undefined), Undefined),
      Null }

ValidateStores ==
    { Undefined, Null, Str(<<"sites">>), EmptyObj,
      Lit(<< <<"sites", Str(<<"none">>)>> >>),
      Lit(<< <<"sites", EmptyObj>> >>),
      Lit(<< <<"sites", Arr(<<SiteOf(UrlA, FragA, Undefined)>>)>> >>) }
    \cup StoresOf(ValidateSites, GoodSites)

InitValidate ==
    /\ storeFile = Missing
    /\ settingsFile = Missing
    /\ configJsonFile = Missing
    /\ clock = 0
    /\ op = "init"
    /\ args \in ValidateStores
    /\ ret = Undefined
    /\ pre = Files
    /\ calls = 0
    /\ written = <<>>
    /\ hook = NoHook

ValidateConfig ==
    /\ calls < MaxCalls
    /\ ret' = validateConfig(args)
    /\ op' = "validateConfig"
    /\ calls' = calls + 1
    /\ UNCHANGED <<storeFile, settingsFile, configJsonFile, clock, args, pre, written, hook>>

NextValidate == ValidateConfig

SpecValidate == InitValidate /\ [][NextValidate]_vars

\* the sites of the validated store, when it has a sites object
ValidatedSites ==
    IF IsObj(args) /\ IsObj(SitesIn(args)) THEN Values(SitesIn(args)) ELSE <<>>

\* the env of a site's effective fragment
SiteEnv(site) == Get(getClaudeConfig(site), "env")

\* the site has a url and a fragment with an env object
HasUrlAndEnv(site) ==
    /\ IsObj(site)
    /\ Truthy(Get(site, "url"))
    /\ ~IsError(getClaudeConfig(site))
    /\ IsObj(getClaudeConfig(site))
    /\ IsObj(SiteEnv(site))

\* the auth-token rule: a string that is not blank once trimmed, or a
\* label-to-token mapping with at least one entry
TokenRuleMet(token) ==
    \/ IsStr(token) /\ Trim(token.s) # <<>>
    \/ IsObj(token) /\ Len(token.o) > 0

\* exactly one base-URL key, holding a non-empty string
OneUrlGiven(env) ==
    LET b == Get(env, "ANTHROPIC_BASE_URL")
        v == Get(env, "ANTHROPIC_VERTEX_BASE_URL")
    IN  \/ IsStr(b) /\ Truthy(b) /\ v = Undefined
        \/ IsStr(v) /\ Truthy(v) /\ b = Undefined

\* the key holds a value (JSON null counts as no value)
Present(env, k) == Get(env, k) \notin {Undefined, Null}

\* the base-URL rule is broken: both keys are present, or neither is, or the
\* one that is present is not a string
UrlRuleBroken(env) ==
    LET hasB == Present(env, "ANTHROPIC_BASE_URL")
        hasV == Present(env, "ANTHROPIC_VERTEX_BASE_URL")
    IN  \/ hasB /\ hasV
        \/ ~hasB /\ ~hasV
        \/ hasB /\ ~IsStr(Get(env, "ANTHROPIC_BASE_URL"))
        \/ hasV /\ ~IsStr(Get(env, "ANTHROPIC_VERTEX_BASE_URL"))

\* C8: on a store that is otherwise valid, validateConfig returns false if
\* some site has both base-URL keys, or neither, or has the one present not
\* a string, and true when every site has exactly one of them as a string.
C8_BaseUrlExclusive ==
    ( /\ op = "validateConfig"
      /\ Len(ValidatedSites) > 0
      /\ \A i \in 1..Len(ValidatedSites) :
            /\ HasUrlAndEnv(ValidatedSites[i])
            /\ TokenRuleMet(Get(SiteEnv(ValidatedSites[i]), "ANTHROPIC_AUTH_TOKEN")) )
    => /\ (\E i \in 1..Len(ValidatedSites) : UrlRuleBroken(SiteEnv(ValidatedSites[i])))
            => ret = Bool(FALSE)
       /\ (\A i \in 1..Len(ValidatedSites) : OneUrlGiven(SiteEnv(ValidatedSites[i])))
            => ret = Bool(TRUE)

\* C9: on a store that is otherwise valid, validateConfig returns true only
\* if every site's ANTHROPIC_AUTH_TOKEN is a string that is not blank once
\* trimmed or a mapping with at least one entry; a blank string, an empty
\* mapping or a value of another type (number, boolean, array, null) makes
\* it return false.
C9_TokenTypeRule ==
    ( /\ op = "validateConfig"
      /\ Len(ValidatedSites) > 0
      /\ \A i \in 1..Len(ValidatedSites) :
            /\ HasUrlAndEnv(ValidatedSites[i])
            /\ OneUrlGiven(SiteEnv(ValidatedSites[i])) )
    => ret = Bool(\A i \in 1..Len(ValidatedSites) :
                     TokenRuleMet(Get(SiteEnv(ValidatedSites[i]), "ANTHROPIC_AUTH_TOKEN")))

----------------------------------------------------------------------------
(* The normalisation specification: normalizeConfig applied to a store, and *)
(* again to what it returned                                                *)

\* the same fragment as FragA with its env keys in another order
FragAReordered ==
    FragmentOf(Lit(<< <<"ANTHROPIC_AUTH_TOKEN", TokenMap>>, <<"ANTHROPIC_BASE_URL", UrlA>> >>),
               Undefined, Undefined)

NormalizeSites ==
    MixedSites \cup { SiteOf(UrlA, FragA, FragAReordered), SiteOf(UrlA, Str(<<"x">>), Str(<<"x">>)),
                      Lit(<< <<"config", FragV>>, <<"url", UrlV>> >>) }

NormalizeStores ==
    { EmptyObj, Lit(<< <<"currentConfig", EmptyObj>> >>) }
    \cup StoresOf(NormalizeSites, PlainSites)

InitNormalize ==
    /\ storeFile = Missing
    /\ settingsFile = Missing
    /\ configJsonFile = Missing
    /\ clock = 0
    /\ op = "init"
    /\ args \in NormalizeStores
    /\ ret = Undefined
    /\ pre = Files
    /\ calls = 0
    /\ written = <<>>
    /\ hook = NoHook

\* normalizeConfig(store) first, then normalizeConfig of the store it returned;
\* pre holds the store it was given
NormalizeConfig ==
    /\ calls < MaxCalls
    /\ ~IsError(ret)
    /\ LET given == IF calls = 0 THEN args ELSE ret
       IN  /\ pre' = [given |-> given]
           /\ ret' = normalizeConfig(given)
    /\ op' = "normalizeConfig"
    /\ calls' = calls + 1
    /\ UNCHANGED <<storeFile, settingsFile, configJsonFile, clock, args, written, hook>>

NextNormalize == NormalizeConfig

SpecNormalize == InitNormalize /\ [][NextNormalize]_vars

\* C10: normalizeConfig is idempotent: applied to a store it has already
\* returned, it returns that store unchanged.
C10_NormalizeIdempotent ==
    (op = "normalizeConfig" /\ calls >= 2 /\ ~IsError(ret)) => ret = pre.given

\* a second application to a store whose first application migrated a legacy
\* site and dropped a duplicate config
C10_Witness ==
    /\ op = "normalizeConfig"
    /\ calls = 2
    /\ ret = pre.given
    /\ ret # args
    /\ \E k \in KeySet(SitesIn(args)) :
          /\ Has(Get(SitesIn(args), k), "config")
          /\ ~Has(Get(SitesIn(args), k), "claude")
          /\ ~Has(Get(SitesIn(ret), k), "config")
          /\ Has(Get(SitesIn(ret), k), "claude")

----------------------------------------------------------------------------
(* The store specification: the operations that load or write the          *)
(* credential store, and the two readers of the live documents             *)

\* site entries whose claude and config, where present, are fragments
FragmentSites ==
    { SiteOf(UrlA, c, l) : c \in {Undefined, FragA, FragV, EmptyObj},
                           l \in {Undefined, FragA, FragV, EmptyObj} }
    \cup { SiteOf(UrlA, FragA, FragAReordered),
           Lit(<< <<"config", FragV>>, <<"url", UrlV>> >>),
           Lit(<< <<"config", FragA>>, <<"claude", FragA>>, <<"url", UrlA>> >>) }

\* site entries with a null field, and a null entry
NullSites == { SiteOf(UrlA, Null, FragV), SiteOf(UrlA, Undefined, Null), Null }

LegacySite == SiteOf(UrlV, Undefined, FragV)

StoreFiles ==
    { Missing, Malformed, Lit(<< <<"currentConfig", EmptyObj>> >>) }
    \cup StoresOf(FragmentSites \cup NullSites, {LegacySite})

\* a store with one site, for the runs that vary the live documents
OneSiteStore == Lit(<< <<"sites", Lit(<< <<SiteKey(1), LegacySite>> >>)>> >>)

LiveSettings == Lit(<< <<"env", Lit(<< <<"HTTP_PROXY", Str(<<"http://proxy">>)>> >>)>> >>)

LiveConfigJson == Lit(<< <<"theme", Str(<<"dark">>)>> >>)

\* the selection saveCurrentConfig is given
SavedSelection ==
    Lit(<< <<"site", Str(<<"siteA">>)>>, <<"siteName", Str(<<"siteA">>)>>,
           <<"url", UrlA>>, <<"token", TokA>>, <<"tokenName", Str(<<"Primary">>)>> >>)

\* the selection saveCurrentCodexConfig is given
SavedCodexSelection ==
    Lit(<< <<"site", Str(<<"siteA">>)>>, <<"siteName", Str(<<"siteA">>)>>,
           <<"model", Str(<<"gpt-5">>)>>, <<"apiKey", TokB>>,
           <<"provider", Str(<<"siteA">>)>>, <<"baseUrl", UrlA>> >>)

\* the site entries switchConfig is given in this specification
StoreSwitchSites == { SiteOf(UrlA, FragA, Undefined), SiteOf(UrlA, Undefined, Undefined) }

InitStore ==
    /\ \/ /\ storeFile \in StoreFiles
          /\ settingsFile = Missing
          /\ configJsonFile = Missing
       \/ /\ storeFile \in {Missing, OneSiteStore}
          /\ settingsFile \in {Malformed, LiveSettings}
          /\ configJsonFile \in {Malformed, LiveConfigJson}
    /\ clock = 0
    /\ op = "init"
    /\ args = NoArgs
    /\ ret = Undefined
    /\ pre = Files
    /\ calls = 0
    /\ written = <<>>
    /\ hook = NoHook

\* an operation that reads and writes nothing but `ret`
Reads(name, value) ==
    /\ calls < MaxCalls
    /\ op' = name
    /\ args' = NoArgs
    /\ ret' = value
    /\ pre' = Files
    /\ calls' = calls + 1
    /\ written' = <<>>
    /\ UNCHANGED <<storeFile, settingsFile, configJsonFile, clock, hook>>

StoreGetAllConfigs == Reads("getAllConfigs", getAllConfigs(storeFile))

GetCurrentConfig == Reads("getCurrentConfig", getCurrentConfig(storeFile))

GetCurrentCodexConfig == Reads("getCurrentCodexConfig", getCurrentCodexConfig(storeFile))

GetSettings == Reads("getSettings", getSettings(settingsFile))

GetClaudeConfigJson == Reads("getClaudeConfigJson", getClaudeConfigJson(configJsonFile))

\* an operation that writes the store with `saved`, or throws it
Saves(name, config, saved) ==
    /\ calls < MaxCalls
    /\ op' = name
    /\ args' = config
    /\ pre' = Files
    /\ calls' = calls + 1
    /\ clock' = clock + 1
    /\ IF IsError(saved)
       THEN ret' = saved /\ written' = <<>> /\ UNCHANGED storeFile
       ELSE ret' = Undefined /\ written' = <<StoreName>> /\ storeFile' = saved
    /\ UNCHANGED <<settingsFile, configJsonFile, hook>>

SaveCurrentConfig(config) ==
    Saves("saveCurrentConfig", config, saveCurrentConfig(config, storeFile, clock))

SaveCurrentCodexConfig(config) ==
    Saves("saveCurrentCodexConfig", config, saveCurrentCodexConfig(config, storeFile, clock))

\* normalizeConfig applied to the tree parsed from the store file
NormalizeParsed ==
    /\ calls < MaxCalls
    /\ IsObj(storeFile)
    /\ op' = "normalizeConfig"
    /\ args' = storeFile
    /\ ret' = normalizeConfig(storeFile)
    /\ pre' = Files
    /\ calls' = calls + 1
    /\ written' = <<>>
    /\ UNCHANGED <<storeFile, settingsFile, configJsonFile, clock, hook>>

NextStore ==
    \/ StoreGetAllConfigs
    \/ GetCurrentConfig
    \/ GetCurrentCodexConfig
    \/ GetSettings
    \/ GetClaudeConfigJson
    \/ SaveCurrentConfig(SavedSelection)
    \/ SaveCurrentCodexConfig(SavedCodexSelection)
    \/ NormalizeParsed
    \/ \E siteConfig \in StoreSwitchSites : SwitchConfig(Str(<<"siteA">>), TokA, siteConfig)

SpecStore == InitStore /\ [][NextStore]_vars

\* a site entry as the data model has it: claude and config, where present,
\* are fragments
IsSiteEntry(site) ==
    /\ IsObj(site)
    /\ \A k \in {"claude", "config"} : Has(site, k) => IsObj(Get(site, k))

\* the entry has a config that is alone, or that repeats its claude
RedundantConfig(site) ==
    /\ Has(site, "config")
    /\ \/ ~Has(site, "claude")
       \/ Get(site, "claude") = Get(site, "config")

\* C11: normalizeConfig turns a site entry with config and no claude into one
\* with claude equal to that config and no config; drops the config of an
\* entry whose claude and config are identical and leaves its claude; leaves
\* an entry with differing claude and config, or with claude only, as it is.
\* After a saveCurrentConfig or saveCurrentCodexConfig that succeeded, no site
\* entry in the store file has a config that is alone or repeats its claude.
C11_NormalizeMigrates ==
    /\ (op = "normalizeConfig" /\ ~IsError(ret) /\ Has(args, "sites")) =>
          \A k \in KeySet(SitesIn(args)) :
              LET before == Get(SitesIn(args), k)
                  after  == Get(SitesIn(ret), k)
              IN  IsSiteEntry(before) =>
                    /\ (Has(before, "config") /\ ~Has(before, "claude"))
                          => /\ Get(after, "claude") = Get(before, "config")
                             /\ ~Has(after, "config")
                             /\ Get(after, "url") = Get(before, "url")
                    /\ ( /\ Has(before, "config") /\ Has(before, "claude")
                         /\ Get(before, "claude") = Get(before, "config") )
                          => after = Delete(before, "config")
                    /\ ( \/ ~Has(before, "config")
                         \/ /\ Has(before, "claude")
                            /\ Get(before, "claude") # Get(before, "config") )
                          => after = before
    /\ ( /\ op \in {"saveCurrentConfig", "saveCurrentCodexConfig"}
         /\ ~IsError(ret)
         /\ Has(storeFile, "sites") ) =>
          /\ KeySet(SitesIn(storeFile)) = KeySet(SitesIn(pre.store))
          /\ \A k \in KeySet(SitesIn(storeFile)) :
                IsSiteEntry(Get(SitesIn(pre.store), k))
                   => ~RedundantConfig(Get(SitesIn(storeFile), k))

\* a save that rewrote a store holding a legacy entry and an entry whose
\* config repeated its claude
C11_Witness ==
    /\ op \in {"saveCurrentConfig", "saveCurrentCodexConfig"}
    /\ ~IsError(ret)
    /\ written = <<StoreName>>
    /\ \E k \in KeySet(SitesIn(pre.store)) :
          LET before == Get(SitesIn(pre.store), k)
          IN  /\ IsSiteEntry(before)
              /\ Has(before, "config") /\ ~Has(before, "claude")
              /\ Get(Get(SitesIn(storeFile), k), "claude") = Get(before, "config")
    /\ \E k \in KeySet(SitesIn(pre.store)) :
          LET before == Get(SitesIn(pre.store), k)
          IN  /\ IsSiteEntry(before)
              /\ Has(before, "claude")
              /\ Get(before, "claude") = Get(before, "config")
              /\ ~Has(Get(SitesIn(storeFile), k), "config")

\* the operations that load the credential store
StoreLoaders ==
    { "getAllConfigs", "getCurrentConfig", "getCurrentCodexConfig",
      "saveCurrentConfig", "saveCurrentCodexConfig", "switchConfig" }

\* C14: an operation that loads the credential store fails with an error
\* when the store file is missing or malformed, and does not return an empty
\* or null value; a malformed live settings or live config document is read
\* as the empty document.
C14_StoreNeverDefaulted ==
    /\ (op \in StoreLoaders /\ pre.store \in {Missing, Malformed}) => IsError(ret)
    /\ (op = "getSettings" /\ pre.settings = Malformed) => ret = EmptyObj
    /\ (op = "getClaudeConfigJson" /\ pre.configJson = Malformed) => ret = EmptyObj

----------------------------------------------------------------------------
(* The merge specification: deepMerge applied to a pair of trees *)

\* what a key of a tree may hold: nothing, a scalar, null, an array, a mapping
MergeValues ==
    { Undefined, Num(1), Str(<<"x">>), Bool(FALSE), Null,
      Arr(<<Num(1), Num(2), Num(3)>>), Arr(<<Num(9)>>), Arr(<<>>),
      Lit(<< <<"x", Num(1)>>, <<"y", Num(2)>> >>),
      Lit(<< <<"x", Num(9)>>, <<"z", Num(5)>> >>),
      Lit(<< <<"x", Lit(<< <<"p", Num(1)>> >>)>> >>),
      Lit(<< <<"x", Lit(<< <<"q", Arr(<<Num(2)>>)>> >>)>>, <<"y", Null>> >>) }

\* the trees deepMerge is given: a under every value, b under a few
MergeTrees ==
    { Lit(<< <<"a", v>>, <<"b", w>> >>)
        : v \in MergeValues, w \in {Undefined, Num(7), EmptyObj} }

InitMerge ==
    /\ storeFile = Missing
    /\ settingsFile = Missing
    /\ configJsonFile = Missing
    /\ clock = 0
    /\ op = "init"
    /\ args \in { [target |-> t, source |-> u] : t \in MergeTrees, u \in MergeTrees }
    /\ ret = Undefined
    /\ pre = Files
    /\ calls = 0
    /\ written = <<>>
    /\ hook = NoHook

DeepMerge ==
    /\ calls < MaxCalls
    /\ op' = "deepMerge"
    /\ ret' = deepMerge(args.target, args.source)
    /\ calls' = calls + 1
    /\ UNCHANGED <<storeFile, settingsFile, configJsonFile, clock, args, pre, written, hook>>

NextMerge == DeepMerge

SpecMerge == InitMerge /\ [][NextMerge]_vars

\* the keys of a tree: those of a mapping; a scalar, null or an array has none
MappingKeys(v) == IF IsObj(v) THEN KeySet(v) ELSE {}

\* r is the merge of the mapping s over the tree d: the keys of r are those
\* of d and of s; a key of d alone keeps its value; a key of s holding a
\* mapping holds the merge of that mapping over the value d has there (over
\* the empty mapping if d has none); any other key of s holds the value of s
RECURSIVE IsMergeOf(_, _, _)
IsMergeOf(r, d, s) ==
    /\ IsObj(r)
    /\ KeySet(r) = MappingKeys(d) \cup KeySet(s)
    /\ \A k \in MappingKeys(d) \ KeySet(s) : Get(r, k) = Get(d, k)
    /\ \A k \in KeySet(s) :
          IF IsObj(Get(s, k))
          THEN IsMergeOf(Get(r, k),
                         IF k \in MappingKeys(d) THEN Get(d, k) ELSE EmptyObj,
                         Get(s, k))
          ELSE Get(r, k) = Get(s, k)

\* C12: for every pair of trees deepMerge(destination, source) is the merge
\* of source over destination: destination-only keys keep their value, a
\* source mapping is merged recursively with the destination's value at its
\* key (an absent one read as empty), and any other source value (scalar,
\* array, null) replaces the destination's value outright.
C12_DeepMergeTree ==
    op = "deepMerge" => IsMergeOf(ret, args.target, args.source)

----------------------------------------------------------------------------
(* NotificationManager (src/src/utils/notification-manager.js)             *)

\* the command strings, as sequences of symbols
NotifyCommand       == <<"cc notify-hook">>
StopCommand         == <<"cc notify-hook", " ", "stop">>
NotificationCommand == <<"cc notify-hook", " ", "notification">>

\* s.includes(sub)
Includes(s, sub) ==
    \E i \in 0..(Len(s) - Len(sub)) : SubSeq(s, i + 1, i + Len(sub)) = sub

\* the outcome of a callback or of Array.prototype.some: true, false, or a
\* thrown TypeError
Yes    == "true"
No     == "false"
Throws == "throws"

\* h.command?.includes(needle)
CommandIncludes(h, needle) ==
    LET command == Get(h, "command")
    IN  IF Unreadable(command) THEN No
        ELSE IF IsStr(command) THEN (IF Includes(command.s, needle) THEN Yes ELSE No)
        ELSE IF IsArr(command) THEN No
        ELSE Throws

\* h.type === 'command' && h.command?.includes(needle)
IsCommandWith(h, needle) ==
    IF Unreadable(h) THEN Throws
    ELSE IF Get(h, "type") # Str(<<"command">>) THEN No
    ELSE CommandIncludes(h, needle)

\* h.command?.includes(needle), the test addNotificationHooks makes
HasCommandWith(h, needle) ==
    IF Unreadable(h) THEN Throws ELSE CommandIncludes(h, needle)

\* array.some(callback), given the outcome of the callback on each element:
\* the first element whose outcome is not false decides
Some(outcomes) ==
    LET decided == {i \in 1..Len(outcomes) : outcomes[i] # No}
    IN  IF decided = {} THEN No
        ELSE outcomes[CHOOSE i \in decided : \A j \in decided : i <= j]

\* the callback on one entry h: with the type test (checkNotificationStatus,
\* removeNotificationHooks) or without it (addNotificationHooks)
EntryTest(h, needle, typed) ==
    IF typed THEN IsCommandWith(h, needle) ELSE HasCommandWith(h, needle)

\* hook.hooks?.some(h => ...) on one hook group
GroupSome(group, needle, typed) ==
    IF Unreadable(group) THEN Throws
    ELSE LET inner == Get(group, "hooks")
         IN  IF Unreadable(inner) THEN No
             ELSE IF ~IsArr(inner) THEN Throws
             ELSE Some([i \in 1..Len(inner.a) |-> EntryTest(inner.a[i], needle, typed)])

\* list.some(group => group.hooks?.some(h => ...)) on a list that is there
ListSome(list, needle, typed) ==
    IF ~IsArr(list) THEN Throws
    ELSE Some([i \in 1..Len(list.a) |-> GroupSome(list.a[i], needle, typed)])

\* settings.hooks?.[event]?.some(hook => hook.hooks?.some(h =>
\*     h.type === 'command' && h.command?.includes('cc notify-hook')))
HasHook(settings, event) ==
    LET hooks == Get(settings, "hooks")
    IN  IF Unreadable(hooks) THEN No
        ELSE LET list == Get(hooks, event)
             IN  IF Unreadable(list) THEN No
                 ELSE ListSome(list, NotifyCommand, TRUE)

\* checkNotificationStatus(): any error reads as false
checkNotificationStatus(file) ==
    IF file \in {Missing, Malformed} \/ Unreadable(file) THEN FALSE
    ELSE HasHook(file, "Stop") = Yes /\ HasHook(file, "Notification") = Yes

\* the hook group addNotificationHooks pushes
NotifierGroup(command) ==
    Obj(<< <<"hooks", Arr(<< Obj(<< <<"type", Str(<<"command">>)>>,
                                    <<"command", Str(command)>> >>) >>)>> >>)

\* the hooks object with the list of `event` made and the notifier group
\* pushed unless a command with `command` is there, or the TypeError
EnsureHook(hooks, event, command) ==
    LET list == IF Truthy(Get(hooks, event)) THEN Get(hooks, event) ELSE Arr(<<>>)
        has  == ListSome(list, command, FALSE)
    IN  IF has = Throws THEN Error("TypeError")
        ELSE IF has = Yes THEN Set(hooks, event, list)
        ELSE Set(hooks, event, Arr(Append(list.a, NotifierGroup(command))))

\* addNotificationHooks(): the text written to the settings file, or the error
addNotificationHooks(file) ==
    LET settings == IF file = Missing THEN EmptyObj ELSE file
    IN  IF file = Malformed THEN Error("SyntaxError")
        ELSE IF ~IsObj(settings) THEN Error("TypeError")
        ELSE
        LET hooks == IF Truthy(Get(settings, "hooks")) THEN Get(settings, "hooks")
                     ELSE EmptyObj
        IN  IF ~IsObj(hooks) THEN Error("TypeError")
            ELSE
            LET withStop == EnsureHook(hooks, "Stop", StopCommand) IN
            IF IsError(withStop) THEN withStop
            ELSE
            LET withBoth == EnsureHook(withStop, "Notification", NotificationCommand) IN
            IF IsError(withBoth) THEN withBoth
            ELSE Stringify(Set(settings, "hooks", withBoth))

\* the hooks object with the groups of `event` that hold a notifier command
\* filtered out and an emptied list deleted, or the TypeError
DropNotifier(hooks, event) ==
    LET list == Get(hooks, event)
    IN  IF ~Truthy(list) THEN hooks
        ELSE IF ~IsArr(list) THEN Error("TypeError")
        ELSE
        LET outcome(group) == GroupSome(group, NotifyCommand, TRUE)
            kept == SelectSeq(list.a, LAMBDA group : outcome(group) = No)
        IN  IF \E i \in 1..Len(list.a) : outcome(list.a[i]) = Throws
            THEN Error("TypeError")
            ELSE IF kept = <<>> THEN Delete(hooks, event)
            ELSE Set(hooks, event, Arr(kept))

\* removeNotificationHooks without the delete of a hooks object left empty
removeNotificationHooksKeepHooks(file) ==
    IF file = Malformed THEN Error("SyntaxError")
    ELSE IF Unreadable(file) THEN Error("TypeError")
    ELSE
    LET hooks == Get(file, "hooks") IN
    IF Unreadable(hooks) \/ ~IsObj(hooks) THEN Stringify(file)
    ELSE
    LET noStop == DropNotifier(hooks, "Stop") IN
    IF IsError(noStop) THEN noStop
    ELSE
    LET noBoth == DropNotifier(noStop, "Notification") IN
    IF IsError(noBoth) THEN noBoth
    ELSE Stringify(Set(file, "hooks", noBoth))

\* removeNotificationHooks() on a settings file that exists: the text
\* written, or the error
removeNotificationHooks(file) ==
    IF file = Malformed THEN Error("SyntaxError")
    ELSE IF Unreadable(file) THEN Error("TypeError")
    ELSE
    LET hooks == Get(file, "hooks") IN
    IF Unreadable(hooks) \/ ~IsObj(hooks)
    THEN Stringify(IF Truthy(hooks) /\ Len(Keys(hooks)) = 0
                   THEN Delete(file, "hooks") ELSE file)
    ELSE
    LET noStop == DropNotifier(hooks, "Stop") IN
    IF IsError(noStop) THEN noStop
    ELSE
    LET noBoth == DropNotifier(noStop, "Notification") IN
    IF IsError(noBoth) THEN noBoth
    ELSE Stringify(IF Len(Keys(noBoth)) = 0
                   THEN Delete(file, "hooks")
                   ELSE Set(file, "hooks", noBoth))

\* toggleNotificationMode(): what it returns or throws, and the settings
\* file afterwards
toggleNotificationMode(file) ==
    LET currentStatus == checkNotificationStatus(file)
        text == IF currentStatus THEN removeNotificationHooks(file)
                ELSE addNotificationHooks(file)
    IN  IF IsError(text)
        THEN [ret |-> text, settings |-> file, written |-> <<>>]
        ELSE [ret |-> Bool(~currentStatus), settings |-> text,
              written |-> <<SettingsName>>]

----------------------------------------------------------------------------
(* The notification specification: toggleNotificationMode and              *)
(* checkNotificationStatus on a live settings document                     *)

MaxToggles == 4   \* operations in one run of this specification

\* a command entry of a hook group
CommandEntry(type, command) ==
    Lit(<< <<"type", type>>, <<"command", Str(command)>> >>)

StopEntry         == CommandEntry(Str(<<"command">>), StopCommand)
NotificationEntry == CommandEntry(Str(<<"command">>), NotificationCommand)
OtherEntry        == CommandEntry(Str(<<"command">>), <<"echo", " ", "done">>)
\* a notifier command whose entry has no type
UntypedStopEntry  == CommandEntry(Undefined, StopCommand)

\* a hook group
GroupOf(entries) == Obj(<< <<"hooks", Arr(entries)>> >>)

\* what hooks.Stop may hold
StopLists ==
    { Undefined, Arr(<<>>),
      Arr(<<GroupOf(<<OtherEntry>>)>>),
      Arr(<<GroupOf(<<StopEntry>>)>>),
      Arr(<<GroupOf(<<OtherEntry>>), GroupOf(<<StopEntry>>)>>),
      Arr(<<GroupOf(<<StopEntry, OtherEntry>>)>>),
      Arr(<<GroupOf(<<StopEntry>>), GroupOf(<<StopEntry>>)>>),
      Arr(<<GroupOf(<<UntypedStopEntry>>)>>) }

\* what hooks.Notification may hold
NotificationLists ==
    { Undefined,
      Arr(<<GroupOf(<<OtherEntry>>)>>),
      Arr(<<GroupOf(<<NotificationEntry>>)>>),
      Arr(<<GroupOf(<<OtherEntry, NotificationEntry>>)>>) }

\* the live settings documents the manager is run on
NotifySettings ==
    { Missing, Malformed, EmptyObj, LiveSettings }
    \cup { Lit(<< <<"env", e>>,
                  <<"hooks", Lit(<< <<"PreToolUse", p>>, <<"Stop", st>>,
                                    <<"Notification", n>> >>)>> >>)
             : e \in {Undefined, Get(LiveSettings, "env")},
               p \in {Undefined, Arr(<<GroupOf(<<OtherEntry>>)>>)},
               st \in StopLists, n \in NotificationLists }

InitNotify ==
    /\ storeFile = Missing
    /\ settingsFile \in NotifySettings
    /\ configJsonFile = Missing
    /\ clock = 0
    /\ op = "init"
    /\ args = NoArgs
    /\ ret = Undefined
    /\ pre = [settings |-> settingsFile, start |-> settingsFile, toggles |-> 0]
    /\ calls = 0
    /\ written = <<>>
    /\ hook = NoHook

\* toggleNotificationMode({ showConfirm: false }); pre keeps the document as
\* it was before the call, the document the run started from, and the
\* number of toggles so far
ToggleNotificationMode ==
    /\ calls < MaxToggles
    /\ LET r == toggleNotificationMode(settingsFile)
       IN  /\ settingsFile' = r.settings
           /\ ret' = r.ret
           /\ written' = r.written
    /\ op' = "toggleNotificationMode"
    /\ pre' = [settings |-> settingsFile, start |-> pre.start, toggles |-> pre.toggles + 1]
    /\ calls' = calls + 1
    /\ UNCHANGED <<storeFile, configJsonFile, clock, args, hook>>

CheckNotificationStatus ==
    /\ calls < MaxToggles
    /\ ret' = Bool(checkNotificationStatus(settingsFile))
    /\ op' = "checkNotificationStatus"
    /\ written' = <<>>
    /\ pre' = [pre EXCEPT !.settings = settingsFile]
    /\ calls' = calls + 1
    /\ UNCHANGED <<storeFile, settingsFile, configJsonFile, clock, args, hook>>

NextNotify == ToggleNotificationMode \/ CheckNotificationStatus

SpecNotify == InitNotify /\ [][NextNotify]_vars

\* the hook groups of an event in a settings document
GroupsOf(doc, event) ==
    LET list == Get(Get(ReadOrEmpty(doc), "hooks"), event)
    IN  IF IsArr(list) THEN list.a ELSE <<>>

\* the command entries of a sequence of hook groups, in order
RECURSIVE FlatEntries(_)
FlatEntries(groups) ==
    IF groups = <<>> THEN <<>>
    ELSE (IF IsArr(Get(Head(groups), "hooks")) THEN Get(Head(groups), "hooks").a ELSE <<>>)
         \o FlatEntries(Tail(groups))

\* the entry's command string contains the notifier marker
MentionsNotifier(h) ==
    IsStr(Get(h, "command")) /\ Includes(Get(h, "command").s, NotifyCommand)

\* a notifier entry: a command-type entry whose command contains the marker
IsNotifierEntry(h) == Get(h, "type") = Str(<<"command">>) /\ MentionsNotifier(h)

NotifyEvents == {"Stop", "Notification"}

\* the entries of an event that do not mention the notifier
OtherCommands(doc, event) ==
    SelectSeq(FlatEntries(GroupsOf(doc, event)), LAMBDA h : ~MentionsNotifier(h))

\* the two documents agree on every key but hooks, and on every hook event
\* but Stop and Notification
SameElsewhere(after, before) ==
    LET a == ReadOrEmpty(after)
        b == ReadOrEmpty(before)
    IN  /\ Delete(a, "hooks") = Delete(b, "hooks")
        /\ \A k \in (KeySet(Get(a, "hooks")) \cup KeySet(Get(b, "hooks"))) \ NotifyEvents :
              Get(Get(a, "hooks"), k) = Get(Get(b, "hooks"), k)

Toggled == op = "toggleNotificationMode" /\ ~IsError(ret)

\* C15: a toggleNotificationMode that succeeds turns checkNotificationStatus
\* into its opposite and returns the new status; checkNotificationStatus is
\* true only if hooks.Stop and hooks.Notification each hold a command-type
\* entry whose command contains 'cc notify-hook'.
C15_ToggleFlips ==
    /\ Toggled =>
          /\ checkNotificationStatus(settingsFile) = ~checkNotificationStatus(pre.settings)
          /\ ret = Bool(checkNotificationStatus(settingsFile))
    /\ (op = "checkNotificationStatus" /\ ret = Bool(TRUE)) =>
          \A event \in NotifyEvents :
              \E i \in 1..Len(FlatEntries(GroupsOf(settingsFile, event))) :
                  IsNotifierEntry(FlatEntries(GroupsOf(settingsFile, event))[i])

\* the run started from a document in which no hook entry of Stop or
\* Notification mentions the notifier
CleanStart ==
    /\ pre.start # Malformed
    /\ \A event \in NotifyEvents :
          OtherCommands(pre.start, event) = FlatEntries(GroupsOf(pre.start, event))

\* C16: in a run from a document without notification hook entries, after
\* any number of toggles Stop and Notification each hold at most one
\* notifier entry, and after an even number the document has no notifier
\* entry, no empty hooks object, and everything else as at the start.
C16_EvenTogglesRestore ==
    (Toggled /\ CleanStart) =>
        /\ \A event \in NotifyEvents :
              Len(FlatEntries(GroupsOf(settingsFile, event)))
                 <= Len(OtherCommands(settingsFile, event)) + 1
        /\ pre.toggles % 2 = 0 =>
              /\ \A event \in NotifyEvents :
                    GroupsOf(settingsFile, event) = GroupsOf(pre.start, event)
              /\ Get(settingsFile, "hooks") # EmptyObj
              /\ SameElsewhere(settingsFile, pre.start)

\* the second toggle of a run from a document with an env block and no hooks
\* object: the notifier entries the first toggle pushed are gone again
C16_Witness ==
    /\ Toggled
    /\ CleanStart
    /\ pre.toggles = 2
    /\ Has(pre.start, "env")
    /\ ~Has(pre.start, "hooks")
    /\ checkNotificationStatus(pre.settings)
    /\ ~checkNotificationStatus(settingsFile)
    /\ settingsFile = pre.start

\* C19: a toggle from the on state keeps every hook command of Stop and of
\* Notification whose command does not contain 'cc notify-hook', those that
\* share a hook group with a notifier command among them, and leaves every
\* other hook event and every other settings key as it was.
C19_RemovesOnlyNotifier ==
    (Toggled /\ checkNotificationStatus(pre.settings)) =>
        /\ \A event \in NotifyEvents :
              OtherCommands(settingsFile, event) = OtherCommands(pre.settings, event)
        /\ SameElsewhere(settingsFile, pre.settings)

----------------------------------------------------------------------------
(* ClaudeYoloHook.execute (src/src/commands/claude/yolo.js): one process,  *)
(* its stdin stream, its 5 s timer and what it prints                      *)

\* the texts a hook process is sent, as symbols
ToolEvent(name) == <<"{", "\"tool_name\"", ":", name, "}">>

ToolNames == {"\"Bash\"", "\"Write\"", "\"ExitPlanMode\""}

\* the tool name a quoted name symbol stands for
Unquoted(name) ==
    CASE name = "\"Bash\""         -> "Bash"
      [] name = "\"Write\""        -> "Write"
      [] name = "\"ExitPlanMode\"" -> "ExitPlanMode"

\* Buffer.concat(chunks).toString()
RECURSIVE Concat(_)
Concat(chunks) == IF chunks = <<>> THEN <<>> ELSE Head(chunks) \o Concat(Tail(chunks))

\* JSON.parse(text): white space between tokens is skipped; a text that is
\* no JSON value is Malformed (a SyntaxError)
ParseJson(text) ==
    LET tokens == SelectSeq(text, LAMBDA c : ~IsBlank(c))
    IN  IF Len(tokens) = 5 /\ tokens[1] = "{" /\ tokens[2] = "\"tool_name\""
           /\ tokens[3] = ":" /\ tokens[4] \in ToolNames /\ tokens[5] = "}"
        THEN Obj(<< <<"tool_name", Str(<<Unquoted(tokens[4])>>)>> >>)
        ELSE IF tokens = <<"{", "}">> THEN EmptyObj
        ELSE IF tokens = <<"null">> THEN Null
        ELSE Malformed

\* what console.log(JSON.stringify(response)) prints
Decision(reason) == [decision |-> "approve", reason |-> reason]

ApprovedAll     == Decision("YOLO mode: All tools approved automatically - no restrictions")
ApprovedUnread  == Decision("YOLO mode: Approved despite parsing error - no restrictions")
ApprovedOnError == Decision("YOLO mode: Approved despite stdin error - no restrictions")
ApprovedOnTimeout == Decision("YOLO mode: Approved due to timeout - no restrictions")

\* the first 'end' listener: what it prints, and whether it leaves through
\* process.exit(0) rather than resolve()
OnEnd(chunks) ==
    LET hookData == ParseJson(Trim(Concat(chunks)))
    IN  IF hookData = Malformed \/ Unreadable(hookData)
        THEN [printed |-> <<ApprovedUnread>>, exits |-> FALSE]
        ELSE IF Get(hookData, "tool_name") = Str(<<"ExitPlanMode">>)
        THEN [printed |-> <<>>, exits |-> TRUE]
        ELSE [printed |-> <<ApprovedAll>>, exits |-> FALSE]

\* what is written to the stdin of a hook process, chunk by chunk
YoloInputs ==
    { <<>>, <<<<"not json">>>>, <<<<"{", "}">>>>, <<<<"null">>>> }
    \cup { <<ToolEvent(n)>> : n \in ToolNames }
    \cup { <<SubSeq(ToolEvent(n), 1, 3), SubSeq(ToolEvent(n), 4, 5) \o <<"\n">> >> : n \in ToolNames }

Alive == hook.status \in {"pending", "resolved"}

InitYolo ==
    /\ storeFile = Missing
    /\ settingsFile = Missing
    /\ configJsonFile = Missing
    /\ clock = 0
    /\ op = "init"
    /\ args = NoArgs
    /\ ret = Undefined
    /\ pre = Files
    /\ calls = 0
    /\ written = <<>>
    /\ hook = NoHook

\* execute(): the listeners are attached and the timer is armed
Execute(input) ==
    /\ hook.status = "idle"
    /\ hook' = [stdin |-> input, chunks |-> <<>>, stream |-> "open", timer |-> "armed",
                out |-> <<>>, status |-> "pending"]
    /\ op' = "execute"
    /\ UNCHANGED <<storeFile, settingsFile, configJsonFile, clock, args, ret, pre, calls,
                   written>>

\* stdin 'data'
OnData ==
    /\ Alive
    /\ hook.stream = "open"
    /\ hook.stdin # <<>>
    /\ hook' = [hook EXCEPT !.chunks = Append(@, Head(hook.stdin)), !.stdin = Tail(@)]
    /\ UNCHANGED <<storeFile, settingsFile, configJsonFile, clock, op, args, ret, pre, calls,
                   written>>

\* stdin 'end': the first listener prints and resolves, or exits the process;
\* the second clears the timer
OnStdinEnd ==
    /\ Alive
    /\ hook.stream = "open"
    /\ hook.stdin = <<>>
    /\ IF OnEnd(hook.chunks).exits
       THEN hook' = [hook EXCEPT !.stream = "ended", !.status = "exited"]
       ELSE hook' = [hook EXCEPT !.stream = "ended",
                                 !.out = @ \o OnEnd(hook.chunks).printed,
                                 !.status = "resolved",
                                 !.timer = IF @ = "armed" THEN "cleared" ELSE @]
    /\ UNCHANGED <<storeFile, settingsFile, configJsonFile, clock, op, args, ret, pre, calls,
                   written>>

\* stdin 'error'
OnStdinError ==
    /\ Alive
    /\ hook.stream = "open"
    /\ hook' = [hook EXCEPT !.stream = "errored",
                            !.out = Append(@, ApprovedOnError),
                            !.status = "resolved"]
    /\ UNCHANGED <<storeFile, settingsFile, configJsonFile, clock, op, args, ret, pre, calls,
                   written>>

\* the 5 s timer fires
OnTimeout ==
    /\ Alive
    /\ hook.timer = "armed"
    /\ hook' = [hook EXCEPT !.timer = "fired",
                            !.out = Append(@, ApprovedOnTimeout),
                            !.status = "resolved"]
    /\ UNCHANGED <<storeFile, settingsFile, configJsonFile, clock, op, args, ret, pre, calls,
                   written>>

\* the process ends once execute() has resolved: the caller exits, or nothing
\* is left to wait for
ProcessExit ==
    /\ hook.status = "resolved"
    /\ hook' = [hook EXCEPT !.status = "exited"]
    /\ UNCHANGED <<storeFile, settingsFile, configJsonFile, clock, op, args, ret, pre, calls,
                   written>>

NextYolo ==
    \/ \E input \in YoloInputs : Execute(input)
    \/ OnData
    \/ OnStdinEnd
    \/ OnStdinError
    \/ OnTimeout
    \/ ProcessExit

SpecYolo == InitYolo /\ [][NextYolo]_vars

\* C17: every invocation of the hook that has resolved or exited has printed
\* a decision, and every decision printed is 'approve', whatever the tool
\* name, also on unparseable input, a stdin error or the timeout.
C17_AlwaysApproves ==
    hook.status \in {"resolved", "exited"} =>
        /\ hook.out # <<>>
        /\ \A i \in 1..Len(hook.out) : hook.out[i].decision = "approve"

\* C20: one invocation prints at most one decision, under every order of the
\* stdin 'data', 'end' and 'error' events and the timeout.
C20_AtMostOneDecision == Len(hook.out) <= 1

====
